---- MODULE Spec2Model ----
(***************************************************************************)
(* Model of the SMTP session state machine of rubbermail                   *)
(* (src/smtp/protocol.rs, Connection::handle_smtp).                        *)
(*                                                                         *)
(* Text that the handler parses (raw lines, tokens, addresses, the body)   *)
(* is a sequence of one-character strings, so that split_whitespace,       *)
(* to_lowercase, strip_prefix and ends_with are computed as the code       *)
(* computes them.  Reply constants are only compared, and are strings.     *)
(***************************************************************************)
EXTENDS Integers, Sequences, FiniteSets, TLC

\* The envelope holds at most MaxItems recipients and supplied data lines.
MaxItems == 2

----------------------------------------------------------------------------
\* Reply constants, protocol.rs:31-36

SMTP_READY == "220 rubbermail\n"
SMTP_OK == "250 Ok\n"
SMTP_AUTH_OK == "235 Ok\n"
SMTP_SEND_ME_DATA == "354 End data with <CR><LF>.<CR><LF>\n"
SMTP_GOODBYE == "221 Bye\n"
SMTP_EMPTY == ""

----------------------------------------------------------------------------
\* struct Mail and enum State, protocol.rs:6-20

Mail(from, to, data) == [from |-> from, to |-> to, data |-> data]

\* Mail { from, ..Default::default() }
MailDefault(from) == Mail(from, <<>>, <<>>)

Ready == [tag |-> "Ready"]
Acknowledged == [tag |-> "Acknowledged"]
ReceivingRcpt(mail) == [tag |-> "ReceivingRcpt", mail |-> mail]
ReceivingData(mail) == [tag |-> "ReceivingData", mail |-> mail]
Received(mail) == [tag |-> "Received", mail |-> mail]

HasMail(s) == s.tag \in {"ReceivingRcpt", "ReceivingData", "Received"}

----------------------------------------------------------------------------
\* Results of handle_smtp: Ok(bytes), or an anyhow error with its message.

Ok(bytes) == [ok |-> TRUE, bytes |-> bytes]

\* Option::context(msg)? on None
Err(msg) == [ok |-> FALSE, msg |-> msg]

\* anyhow::bail!("Unexpected message received in state {:?}: {raw_msg}", self.state)
Bail(shown, raw_msg) ==
    [ok |-> FALSE, msg |-> "Unexpected message received in state",
     state |-> shown, raw_msg |-> raw_msg]

E_EMPTY_COMMAND == "received empty command"
E_EMPTY_MAIL == "received empty MAIL"
E_INCORRECT_MAIL == "received incorrect MAIL"
E_EMPTY_RCPT == "received empty RCPT"
E_INCORRECT_RCPT == "received incorrect RCPT"

----------------------------------------------------------------------------
\* String functions of the standard library used by the handler.

WhiteSpace == {" ", "\t", "\n", "\r"}

UpperChars == <<"A","B","C","D","E","F","G","H","I","J","K","L","M",
                "N","O","P","Q","R","S","T","U","V","W","X","Y","Z">>
LowerChars == <<"a","b","c","d","e","f","g","h","i","j","k","l","m",
                "n","o","p","q","r","s","t","u","v","w","x","y","z">>

\* The lower-case letter of every upper-case letter
LowerOf ==
    [c \in {UpperChars[i] : i \in 1..Len(UpperChars)} |->
        LowerChars[CHOOSE i \in 1..Len(UpperChars) : UpperChars[i] = c]]

to_lowercase_char(c) == IF c \in DOMAIN LowerOf THEN LowerOf[c] ELSE c

\* str::to_lowercase
to_lowercase(s) == [i \in 1..Len(s) |-> to_lowercase_char(s[i])]

\* The tokens of s from position i on; from is the start of the token being
\* read, or 0 between tokens
RECURSIVE SplitFrom(_, _, _)
SplitFrom(s, i, from) ==
    IF i > Len(s)
    THEN IF from = 0 THEN <<>> ELSE <<SubSeq(s, from, Len(s))>>
    ELSE IF s[i] \in WhiteSpace
         THEN IF from = 0
              THEN SplitFrom(s, i + 1, 0)
              ELSE <<SubSeq(s, from, i - 1)>> \o SplitFrom(s, i + 1, 0)
         ELSE SplitFrom(s, i + 1, IF from = 0 THEN i ELSE from)

\* str::split_whitespace: the non-empty maximal runs of non-whitespace
split_whitespace(s) == SplitFrom(s, 1, 0)

starts_with(s, p) == Len(s) >= Len(p) /\ SubSeq(s, 1, Len(p)) = p

\* str::ends_with
ends_with(s, p) ==
    Len(s) >= Len(p) /\ SubSeq(s, Len(s) - Len(p) + 1, Len(s)) = p

None == [some |-> FALSE]
Some(v) == [some |-> TRUE, v |-> v]

\* str::strip_prefix: Some(rest) when s starts with p, else None
strip_prefix(s, p) ==
    IF starts_with(s, p) THEN Some(SubSeq(s, Len(p) + 1, Len(s))) ELSE None

\* Iterator::next on the token iterator, at position i
next(msg, i) == IF i <= Len(msg) THEN Some(msg[i]) ELSE None

----------------------------------------------------------------------------
\* Literals matched by the handler

c_ehlo == <<"e","h","l","o">>
c_helo == <<"h","e","l","o">>
c_noop == <<"n","o","o","p">>
c_help == <<"h","e","l","p">>
c_info == <<"i","n","f","o">>
c_vrfy == <<"v","r","f","y">>
c_expn == <<"e","x","p","n">>
c_rset == <<"r","s","e","t">>
c_auth == <<"a","u","t","h">>
c_mail == <<"m","a","i","l">>
c_rcpt == <<"r","c","p","t">>
c_data == <<"d","a","t","a">>
c_quit == <<"q","u","i","t">>

P_FROM == <<"F","R","O","M",":">>
P_TO == <<"T","O",":">>
TERMINATOR == <<"\r","\n",".","\r","\n">>

----------------------------------------------------------------------------
\* struct Connection, protocol.rs:22-25, and Connection::new, protocol.rs:40-49

ehlo_format(domain) ==
    "250-" \o domain \o " Hello " \o domain \o "\n250 AUTH PLAIN LOGIN\n"

new(domain) == [state |-> Ready, ehlo_greeting |-> ehlo_format(domain)]

\* Variant: the state is cloned and left in place
replace_Clones(dest, src) == [dest |-> dest, old |-> dest]

\* std::mem::replace(dest, src): dest becomes src, the old dest is returned
replace(dest, src) == [dest |-> src, old |-> dest]

----------------------------------------------------------------------------
\* The arms of the match in handle_smtp.  self is the connection after the
\* replace of line 56; each arm yields the connection and the return value.

Out(self, ret) == [self |-> self, ret |-> ret]

\* Variant: EHLO answered like HELO
ArmEhlo_PlainOk(self) ==
    Out([self EXCEPT !.state = Acknowledged], Ok(SMTP_OK))

\* ("ehlo", State::Ready), lines 59-63
ArmEhlo(self) ==
    Out([self EXCEPT !.state = Acknowledged], Ok(self.ehlo_greeting))

\* ("helo", State::Ready), lines 64-67
ArmHelo(self) ==
    Out([self EXCEPT !.state = Acknowledged], Ok(SMTP_OK))

\* ("noop", _) | ("help", _) | ("info", _) | ("vrfy", _) | ("expn", _), lines 68-72
ArmNoop(self) ==
    Out(self, Ok(SMTP_OK))

\* Variant: RSET keeps the greeting, as in RFC 5321
ArmRset_KeepsGreeting(self) ==
    Out([self EXCEPT !.state = Acknowledged], Ok(SMTP_OK))

\* ("rset", _), lines 73-76
ArmRset(self) ==
    Out([self EXCEPT !.state = Ready], Ok(SMTP_OK))

\* Variant: AUTH counts as a greeting
ArmAuth_Acknowledges(self) ==
    Out([self EXCEPT !.state = Acknowledged], Ok(SMTP_AUTH_OK))

\* ("auth", _), line 77
ArmAuth(self) ==
    Out(self, Ok(SMTP_AUTH_OK))

\* Variant: the sender keeps its FROM: prefix
ArmMail_KeepsPrefix(self, msg) ==
    LET tok == next(msg, 2) IN
    IF ~tok.some THEN Out(self, Err(E_EMPTY_MAIL))
    ELSE LET from == strip_prefix(tok.v, P_FROM) IN
         IF ~from.some THEN Out(self, Err(E_INCORRECT_MAIL))
         ELSE Out([self EXCEPT !.state = ReceivingRcpt(MailDefault(tok.v))],
                  Ok(SMTP_OK))

\* Variant: a refused MAIL puts the state back
ArmMail_RestoresOnError(self, msg) ==
    LET tok == next(msg, 2) IN
    IF ~tok.some THEN Out([self EXCEPT !.state = Acknowledged], Err(E_EMPTY_MAIL))
    ELSE LET from == strip_prefix(tok.v, P_FROM) IN
         IF ~from.some
         THEN Out([self EXCEPT !.state = Acknowledged], Err(E_INCORRECT_MAIL))
         ELSE Out([self EXCEPT !.state = ReceivingRcpt(MailDefault(from.v))],
                  Ok(SMTP_OK))

\* ("mail", State::Acknowledged), lines 78-92
ArmMail(self, msg) ==
    LET tok == next(msg, 2) IN
    IF ~tok.some THEN Out(self, Err(E_EMPTY_MAIL))
    ELSE LET from == strip_prefix(tok.v, P_FROM) IN
         IF ~from.some THEN Out(self, Err(E_INCORRECT_MAIL))
         ELSE Out([self EXCEPT !.state = ReceivingRcpt(MailDefault(from.v))],
                  Ok(SMTP_OK))

\* Variant: the recipient is put in front of the list
ArmRcpt_Prepends(self, msg, mail) ==
    LET tok == next(msg, 2) IN
    IF ~tok.some THEN Out(self, Err(E_EMPTY_RCPT))
    ELSE LET to == strip_prefix(tok.v, P_TO) IN
         IF ~to.some THEN Out(self, Err(E_INCORRECT_RCPT))
         ELSE Out([self EXCEPT !.state =
                       ReceivingRcpt([mail EXCEPT !.to = <<to.v>> \o @])],
                  Ok(SMTP_OK))

\* ("rcpt", State::ReceivingRcpt(mut mail)), lines 93-103
ArmRcpt(self, msg, mail) ==
    LET tok == next(msg, 2) IN
    IF ~tok.some THEN Out(self, Err(E_EMPTY_RCPT))
    ELSE LET to == strip_prefix(tok.v, P_TO) IN
         IF ~to.some THEN Out(self, Err(E_INCORRECT_RCPT))
         ELSE Out([self EXCEPT !.state =
                       ReceivingRcpt([mail EXCEPT !.to = Append(@, to.v)])],
                  Ok(SMTP_OK))

\* Variant: DATA refused while there is no recipient
ArmData_NeedsRcpt(self, mail) ==
    IF mail.to = <<>> THEN Out(self, Bail(self.state, <<>>))
    ELSE Out([self EXCEPT !.state = ReceivingData(mail)], Ok(SMTP_SEND_ME_DATA))

\* ("data", State::ReceivingRcpt(mail)), lines 104-108
ArmData(self, mail) ==
    Out([self EXCEPT !.state = ReceivingData(mail)], Ok(SMTP_SEND_ME_DATA))

\* ("quit", State::ReceivingData(mail)), lines 109-119
ArmQuitData(self, mail) ==
    Out([self EXCEPT !.state = Received(mail)], Ok(SMTP_GOODBYE))

\* Variant: an early QUIT keeps the greeting
ArmQuit_KeepsGreeting(self) ==
    Out([self EXCEPT !.state = Acknowledged], Ok(SMTP_GOODBYE))

\* ("quit", _), lines 120-123
ArmQuit(self) ==
    Out(self, Ok(SMTP_GOODBYE))

\* Variant: every data line is answered 250 Ok
ArmBody_AlwaysOk(self, raw_msg, mail) ==
    Out([self EXCEPT !.state =
             ReceivingData([mail EXCEPT !.data = @ \o raw_msg])],
        Ok(SMTP_OK))

\* Variant: mail.data = raw_msg instead of mail.data += raw_msg
ArmBody_Overwrites(self, raw_msg, mail) ==
    LET resp == IF ends_with(raw_msg, TERMINATOR) THEN SMTP_OK ELSE SMTP_EMPTY IN
    Out([self EXCEPT !.state = ReceivingData([mail EXCEPT !.data = raw_msg])],
        Ok(resp))

\* (_, State::ReceivingData(mut mail)), lines 124-135
ArmBody(self, raw_msg, mail) ==
    LET resp == IF ends_with(raw_msg, TERMINATOR) THEN SMTP_OK ELSE SMTP_EMPTY IN
    Out([self EXCEPT !.state =
             ReceivingData([mail EXCEPT !.data = @ \o raw_msg])],
        Ok(resp))

\* _ => anyhow::bail!(...), lines 136-139: the message shows self.state
ArmUnexpected(self, raw_msg) ==
    Out(self, Bail(self.state, raw_msg))

NoopCommands == {c_noop, c_help, c_info, c_vrfy, c_expn}

\* The patterns of the arms that look at the state
MatchEhlo(command, state) == command = c_ehlo /\ state = Ready
MatchHelo(command, state) == command = c_helo /\ state = Ready
\* Variant: ("mail", _)
MatchMail_AnyState(command, state) == command = c_mail
MatchMail(command, state) == command = c_mail /\ state = Acknowledged
\* Variant: RCPT accepted by every state that holds an envelope
MatchRcpt_AnyMail(command, state) == command = c_rcpt /\ HasMail(state)
MatchRcpt(command, state) == command = c_rcpt /\ state.tag = "ReceivingRcpt"
MatchData(command, state) == command = c_data /\ state.tag = "ReceivingRcpt"
\* Variant: QUIT closes every envelope, not only one in ReceivingData
MatchQuitData_AnyMail(command, state) == command = c_quit /\ HasMail(state)
MatchQuitData(command, state) == command = c_quit /\ state.tag = "ReceivingData"
MatchBody(command, state) == state.tag = "ReceivingData"

\* match (command.as_str(), state), lines 58-140; arms are tried in order
Dispatch(self, command, state, msg, raw_msg) ==
    IF MatchEhlo(command, state) THEN ArmEhlo(self)
    ELSE IF MatchHelo(command, state) THEN ArmHelo(self)
    ELSE IF command \in NoopCommands THEN ArmNoop(self)
    ELSE IF command = c_rset THEN ArmRset(self)
    ELSE IF command = c_auth THEN ArmAuth(self)
    ELSE IF MatchMail(command, state) THEN ArmMail(self, msg)
    ELSE IF MatchRcpt(command, state) THEN ArmRcpt(self, msg, state.mail)
    ELSE IF MatchData(command, state) THEN ArmData(self, state.mail)
    ELSE IF MatchQuitData(command, state) THEN ArmQuitData(self, state.mail)
    ELSE IF command = c_quit THEN ArmQuit(self)
    ELSE IF MatchBody(command, state) THEN ArmBody(self, raw_msg, state.mail)
    ELSE ArmUnexpected(self, raw_msg)

\* let command = msg.next().context("received empty command")?, lines 52-53
FirstToken(self, msg) == next(msg, 1)

\* Variant: the state is taken before the line is split
handle_smtp_TakesFirst(self, raw_msg) ==
    LET r == replace(self.state, Ready)
        taken == [self EXCEPT !.state = r.dest]
        msg == split_whitespace(raw_msg)
        first == FirstToken(taken, msg)
    IN  IF ~first.some THEN Out(taken, Err(E_EMPTY_COMMAND))
        ELSE Dispatch(taken, to_lowercase(first.v), r.old, msg, raw_msg)

\* Connection::handle_smtp, lines 51-141
handle_smtp(self, raw_msg) ==
    LET msg == split_whitespace(raw_msg)
        first == FirstToken(self, msg)
    IN  IF ~first.some THEN Out(self, Err(E_EMPTY_COMMAND))
        ELSE LET command == to_lowercase(first.v)
                 r == replace(self.state, Ready)
             IN  Dispatch([self EXCEPT !.state = r.dest], command, r.old,
                          msg, raw_msg)

----------------------------------------------------------------------------
\* Input lines fed to the handler: the lines of tests::test_smtp_flow and
\* tests::test_no_greeting, and one line or more for every arm and error.

L_HELO == <<"H","E","L","O"," ","l","o","c","a","l","h","o","s","t">>
L_EHLO == <<"E","H","L","O"," ","t","e","s","t">>
L_MAIL_SP == <<"M","A","I","L"," ","F","R","O","M",":"," ","<","l","o","c","a","l",
               "@","e","x","a","m","p","l","e",".","c","o","m",">">>
L_MAIL == <<"M","A","I","L"," ","F","R","O","M",":","<","a",">">>
L_MAIL_EMPTY == <<"M","A","I","L">>
L_MAIL_BAD == <<"M","A","I","L"," ","<","a",">">>
L_RCPT_SP_A == <<"R","C","P","T"," ","T","O",":"," ","<","a",">">>
L_RCPT_SP_B == <<"R","C","P","T"," ","T","O",":"," ","<","b",">">>
L_RCPT == <<"R","C","P","T"," ","T","O",":","<","b",">">>
L_RCPT_EMPTY == <<"R","C","P","T">>
L_RCPT_BAD == <<"R","C","P","T"," ","t","o",":","<","b",">">>
L_DATA == <<"D","A","T","A"," ","h","e","l","l","o"," ","w","o","r","l","d","\n">>
L_TERM == <<"h","e","l","l","o","\r","\n",".","\r","\n">>
L_GARBAGE == <<"G","A","R","B","A","G","E">>
L_QUIT == <<"Q","U","I","T">>
L_NOOP == <<"N","O","O","P">>
L_HELP == <<"H","e","l","p">>
L_INFO == <<"I","N","F","O">>
L_VRFY == <<"v","r","f","y"," ","b","o","b">>
L_EXPN == <<"E","X","P","N">>
L_RSET == <<"R","S","E","T">>
L_AUTH == <<"A","U","T","H"," ","P","L","A","I","N">>
L_AUTH_BARE == <<"a","u","t","h">>
L_BLANK == <<>>
L_WS == <<" ","\r","\n">>

Lines ==
    {L_HELO, L_EHLO, L_MAIL_SP, L_MAIL, L_MAIL_EMPTY, L_MAIL_BAD,
     L_RCPT_SP_A, L_RCPT_SP_B, L_RCPT, L_RCPT_EMPTY, L_RCPT_BAD,
     L_DATA, L_TERM, L_GARBAGE, L_QUIT,
     L_NOOP, L_HELP, L_INFO, L_VRFY, L_EXPN, L_RSET, L_AUTH, L_AUTH_BARE,
     L_BLANK, L_WS}

\* Domains given to Connection::new: the one of the tests
Domains == {"test"}

\* The verb of a line as the handler sees it, or <<>> for a line without token
VerbOf ==
    [raw \in Lines |->
        LET msg == split_whitespace(raw) IN
        IF msg = <<>> THEN <<>> ELSE to_lowercase(msg[1])]

Verb(raw) == VerbOf[raw]

----------------------------------------------------------------------------
\* State of one session and of its driver

VARIABLES
    conn,      \* the Connection: state and ehlo_greeting
    ret,       \* what the last call of handle_smtp returned
    called,    \* whether handle_smtp has been called
    raw_msg,   \* the line given to the last call
    preTag,    \* the variant of conn.state when the last call began
    fed,       \* the lines given while ReceivingData held the current envelope
    sinceMail, \* MAIL succeeded and no RSET, DATA or QUIT line came since
    script,    \* how far the lines so far follow the flow of test_smtp_flow
    plainBody  \* no data line of that flow began with a verb matched in any state

vars == <<conn, ret, called, raw_msg, preTag, fed, sinceMail, script, plainBody>>

Init ==
    /\ conn \in {new(d) : d \in Domains}
    /\ ret = Ok(SMTP_READY)
    /\ called = FALSE
    /\ raw_msg = <<>>
    /\ preTag = "Ready"
    /\ fed = <<>>
    /\ sinceMail = FALSE
    /\ script = "fresh"
    /\ plainBody = TRUE

\* Lines given while the envelope was in ReceivingData, the closing QUIT apart
FedAfter(raw, after) ==
    IF after.tag \notin {"ReceivingData", "Received"} THEN <<>>
    ELSE IF conn.state.tag = "ReceivingData" /\ Verb(raw) # c_quit
         THEN Append(fed, raw)
         ELSE fed

SinceMailAfter(raw, out) ==
    IF conn.state = Acknowledged /\ Verb(raw) = c_mail /\ out.ret.ok THEN TRUE
    ELSE IF Verb(raw) \in {c_rset, c_data, c_quit} THEN FALSE
    ELSE sinceMail

\* The flow of tests::test_smtp_flow: a greeting, MAIL FROM:x, one RCPT TO:y
\* or more, DATA, any non-blank lines, QUIT
GreetLines == {L_HELO, L_EHLO}
MailLines == {L_MAIL, L_MAIL_SP}
RcptLines == {L_RCPT, L_RCPT_SP_A, L_RCPT_SP_B}
DataLines == {L_DATA}
BodyLines == Lines \ {L_BLANK, L_WS, L_QUIT}
QuitLines == {L_QUIT}

ScriptAfter(raw) ==
    IF script = "fresh" /\ raw \in GreetLines THEN "greeted"
    ELSE IF script = "greeted" /\ raw \in MailLines THEN "mailed"
    ELSE IF script \in {"mailed", "rcpt"} /\ raw \in RcptLines THEN "rcpt"
    ELSE IF script = "rcpt" /\ raw \in DataLines THEN "data"
    ELSE IF script = "data" /\ raw \in BodyLines THEN "data"
    ELSE IF script = "data" /\ raw \in QuitLines THEN "quit"
    ELSE "off"

\* Verbs whose arms match in any state, ahead of the ReceivingData arm
AnyStateCommands == NoopCommands \cup {c_rset, c_auth}

\* Kept only while the flow is followed; TRUE again once it is left
PlainBodyAfter(raw) ==
    \/ ScriptAfter(raw) = "off"
    \/ plainBody /\ ~(script = "data" /\ Verb(raw) \in AnyStateCommands)

Items(st, lines) == (IF HasMail(st) THEN Len(st.mail.to) ELSE 0) + Len(lines)

\* One call conn.handle_smtp(raw) by the driver
Handle(raw) ==
    \E out \in {handle_smtp(conn, raw)} :
        /\ fed' = FedAfter(raw, out.self.state)
        /\ Items(out.self.state, fed') <= MaxItems
        /\ conn' = out.self
        /\ ret' = out.ret
        /\ called' = TRUE
        /\ raw_msg' = raw
        /\ preTag' = conn.state.tag
        /\ sinceMail' = SinceMailAfter(raw, out)
        /\ script' = ScriptAfter(raw)
        /\ plainBody' = PlainBodyAfter(raw)

Next == \E raw \in Lines : Handle(raw)

Spec == Init /\ [][Next]_vars

----------------------------------------------------------------------------
\* Vocabulary of the properties

Malformed == {E_EMPTY_MAIL, E_INCORRECT_MAIL, E_EMPTY_RCPT, E_INCORRECT_RCPT}

RECURSIVE Concat(_)
Concat(lines) ==
    IF lines = <<>> THEN <<>> ELSE Head(lines) \o Concat(Tail(lines))

ADDR_LOCAL == <<"<","l","o","c","a","l","@","e","x","a","m","p","l","e",".","c","o","m",">">>
ADDR_A == <<"<","a",">">>
ADDR_B == <<"<","b",">">>

KnownCommands ==
    AnyStateCommands \cup {c_ehlo, c_helo, c_mail, c_rcpt, c_data, c_quit}

----------------------------------------------------------------------------
\* C1: for every state S and every line whose verb is NOOP, HELP, INFO, VRFY
\* or EXPN, the call replies 250 Ok and the state after the call is exactly S.
C1_NoopKeepsState ==
    [][Verb(raw_msg') \in NoopCommands
         => ret' = Ok(SMTP_OK) /\ conn'.state = conn.state]_vars

\* C2 as stated: after every call that returns an error the state is Ready.
C2_ErrorLeavesReady ==
    called /\ ~ret.ok => conn.state = Ready

\* C2 as amended: after a call that returns a Malformed or UnexpectedCommand
\* error the state is Ready; a call that returns the empty-command error
\* leaves the state as it was before the call.
C2_ErrorLeavesReadyOrUntouched ==
    [][~ret'.ok => IF ret'.msg = E_EMPTY_COMMAND
                   THEN conn'.state = conn.state
                   ELSE conn'.state = Ready]_vars

C2_Witness ==
    /\ called /\ ~ret.ok /\ ret.msg \in Malformed
    /\ preTag = "ReceivingRcpt" /\ conn.state = Ready

\* C3: whenever the session is in Received(mail), mail.data is the
\* concatenation, in arrival order, of every raw line given while the state was
\* ReceivingData for that envelope, blank and whitespace-only lines included.
C3_DataIsWhatWasFed ==
    conn.state.tag = "Received" => conn.state.mail.data = Concat(fed)

\* C4: in ReceivingData a line without token is accepted as body content,
\* appended to mail.data, and the state stays ReceivingData; in the other
\* states it fails with the empty-command error.
C4_BlankLineIsBody ==
    [][Verb(raw_msg') = <<>>
         => IF conn.state.tag = "ReceivingData"
            THEN /\ ret'.ok
                 /\ conn'.state =
                      ReceivingData([conn.state.mail EXCEPT !.data = @ \o raw_msg'])
            ELSE ret' = Err(E_EMPTY_COMMAND)]_vars

\* C5 as stated, for the lines that have a first token: in ReceivingData every
\* line other than QUIT is appended to mail.data, and the state remains
\* ReceivingData with from and to unchanged.
C5_EveryLineIsBody ==
    [][conn.state.tag = "ReceivingData" /\ Verb(raw_msg') \notin {<<>>, c_quit}
         => /\ ret'.ok
            /\ conn'.state =
                 ReceivingData([conn.state.mail EXCEPT !.data = @ \o raw_msg'])]_vars

\* C5 as amended: in ReceivingData every line whose first token is none of
\* QUIT, NOOP, HELP, INFO, VRFY, EXPN, RSET, AUTH (DATA, MAIL, RCPT, EHLO, HELO
\* and unknown words among them) is appended to mail.data, and the state
\* remains ReceivingData with from and to unchanged; a line whose verb is NOOP,
\* HELP, INFO, VRFY, EXPN, RSET or AUTH is dispatched as that command, appends
\* nothing and leaves the session in Ready; a line without token is refused
\* with the empty-command error and changes nothing.
C5_NonCommandLineIsBody ==
    [][conn.state.tag = "ReceivingData" /\ Verb(raw_msg') # c_quit
         => IF Verb(raw_msg') = <<>>
            THEN ret' = Err(E_EMPTY_COMMAND) /\ conn'.state = conn.state
            ELSE IF Verb(raw_msg') \in AnyStateCommands
            THEN ret'.ok /\ ret'.bytes \in {SMTP_OK, SMTP_AUTH_OK}
                 /\ conn'.state = Ready
            ELSE /\ ret'.ok
                 /\ conn'.state =
                      ReceivingData([conn.state.mail EXCEPT !.data = @ \o raw_msg'])]_vars

C5_Witness ==
    /\ called /\ preTag = "ReceivingData" /\ Verb(raw_msg) = c_rcpt
    /\ conn.state.tag = "ReceivingData"
    /\ conn.state.mail.data = L_MAIL \o L_RCPT

\* C6: RSET handled in any state replies 250 Ok and leaves the session in
\* Ready, which holds no envelope; an envelope that appears later is a fresh
\* one, made of the sender of the MAIL line that creates it and nothing else.
C6_RsetDiscardsEnvelope ==
    [][/\ Verb(raw_msg') = c_rset
            => ret' = Ok(SMTP_OK) /\ conn'.state = Ready
       /\ ~HasMail(conn.state) /\ HasMail(conn'.state)
            => /\ conn.state = Acknowledged
               /\ conn'.state = ReceivingRcpt(Mail(
                      strip_prefix(split_whitespace(raw_msg')[2], P_FROM).v,
                      <<>>, <<>>))]_vars

C6_Witness ==
    /\ called /\ Verb(raw_msg) = c_rset /\ preTag = "ReceivingData"
    /\ ret = Ok(SMTP_OK) /\ conn.state = Ready

ToOf(st) == IF HasMail(st) THEN st.mail.to ELSE <<>>

\* C7: a recipient is appended only by an RCPT handled in ReceivingRcpt; an
\* RCPT command that succeeds follows a successful MAIL with no RSET, DATA or
\* QUIT line in between; RCPT in Ready, Acknowledged or Received fails.  (In
\* ReceivingData a line that begins with RCPT is data, not a command.)
C7_RcptOnlyInReceivingRcpt ==
    [][/\ HasMail(conn'.state) /\ ToOf(conn'.state) # ToOf(conn.state)
            => /\ conn.state.tag = "ReceivingRcpt"
               /\ conn'.state.tag = "ReceivingRcpt"
               /\ Verb(raw_msg') = c_rcpt
               /\ Len(ToOf(conn'.state)) = Len(ToOf(conn.state)) + 1
       /\ Verb(raw_msg') = c_rcpt /\ conn.state.tag # "ReceivingData" /\ ret'.ok
            => conn.state.tag = "ReceivingRcpt" /\ sinceMail
       /\ Verb(raw_msg') = c_rcpt
            /\ conn.state.tag \in {"Ready", "Acknowledged", "Received"}
            => ~ret'.ok]_vars

C7_Witness ==
    /\ called /\ Verb(raw_msg) = c_rcpt /\ preTag = "ReceivingRcpt" /\ ret.ok
    /\ sinceMail
    /\ conn.state.tag = "ReceivingRcpt" /\ conn.state.mail.to = <<ADDR_B, ADDR_B>>

\* C8: from Acknowledged, `MAIL FROM: <local@example.com>` replies 250 Ok and
\* yields ReceivingRcpt with from = "<local@example.com>" and to empty; then
\* `RCPT TO: <a>` and `RCPT TO: <b>` reply 250 Ok and append "<a>" and "<b>".
C8_SpacedAddressIsStored ==
    [][/\ conn.state = Acknowledged /\ raw_msg' = L_MAIL_SP
            => /\ ret' = Ok(SMTP_OK)
               /\ conn'.state = ReceivingRcpt(Mail(ADDR_LOCAL, <<>>, <<>>))
       /\ conn.state.tag = "ReceivingRcpt" /\ raw_msg' = L_RCPT_SP_A
            => /\ ret' = Ok(SMTP_OK)
               /\ conn'.state = ReceivingRcpt(
                      [conn.state.mail EXCEPT !.to = Append(@, ADDR_A)])
       /\ conn.state.tag = "ReceivingRcpt" /\ raw_msg' = L_RCPT_SP_B
            => /\ ret' = Ok(SMTP_OK)
               /\ conn'.state = ReceivingRcpt(
                      [conn.state.mail EXCEPT !.to = Append(@, ADDR_B)])]_vars

\* C9: in Ready every line whose verb is MAIL, RCPT, DATA or an unrecognized
\* word returns an error, and the state is still Ready afterwards.
C9_NoGreetingNoCommand ==
    /\ called /\ preTag = "Ready"
    /\ \/ Verb(raw_msg) \in {c_mail, c_rcpt, c_data}
       \/ Verb(raw_msg) \notin KnownCommands \cup {<<>>}
    => ~ret.ok /\ conn.state = Ready

C9_Witness ==
    /\ called /\ preTag = "Ready" /\ raw_msg = L_MAIL_SP
    /\ ~ret.ok /\ conn.state = Ready

ScriptTag ==
    [fresh |-> "Ready", greeted |-> "Acknowledged", mailed |-> "ReceivingRcpt",
     rcpt |-> "ReceivingRcpt", data |-> "ReceivingData", quit |-> "Received"]

FlowHolds ==
    /\ conn.state.tag = ScriptTag[script]
    /\ script # "fresh" => ret.ok
    /\ script = "greeted" /\ raw_msg = L_EHLO
         => /\ ret = Ok(conn.ehlo_greeting)
            /\ conn.ehlo_greeting \in {ehlo_format(d) : d \in Domains}
    /\ script = "greeted" /\ raw_msg = L_HELO => ret = Ok(SMTP_OK)

\* C10 as stated: from a fresh session the lines HELO or EHLO, MAIL FROM:x, one
\* RCPT TO:y or more, DATA, any non-blank body lines, QUIT succeed at every
\* step and take the state through Ready, Acknowledged, ReceivingRcpt,
\* ReceivingData, Received; EHLO replies the greeting, HELO replies 250 Ok.
C10_FlowSucceeds ==
    script # "off" => FlowHolds

\* C10 as amended: the same, for body lines whose first word is none of QUIT,
\* NOOP, HELP, INFO, VRFY, EXPN, RSET, AUTH (lines that begin with DATA are
\* among them).
C10_FlowOfPlainLinesSucceeds ==
    script # "off" /\ plainBody => FlowHolds

C10_Witness ==
    /\ script = "quit" /\ plainBody /\ conn.state.tag = "Received"
    /\ fed = <<L_DATA>> /\ conn.state.mail.data = L_DATA
    /\ Len(conn.state.mail.to) = 1

\* C11: the state becomes Received(mail) only by a QUIT handled in
\* ReceivingData(mail); that call replies 221 Bye and Received holds the from,
\* to and data that ReceivingData held.  No other verb and state give Received.
C11_ReceivedOnlyByQuitInData ==
    [][/\ conn'.state.tag = "Received" /\ conn.state.tag # "Received"
            => /\ conn.state.tag = "ReceivingData"
               /\ Verb(raw_msg') = c_quit
               /\ ret' = Ok("221 Bye\n")
               /\ conn'.state = Received(conn.state.mail)
       /\ conn'.state.tag = "Received" /\ Verb(raw_msg') # <<>>
            => conn.state.tag = "ReceivingData" /\ Verb(raw_msg') = c_quit
       /\ conn.state.tag = "ReceivingData" /\ Verb(raw_msg') = c_quit
            => conn'.state = Received(conn.state.mail)]_vars

C11_Witness ==
    /\ called /\ preTag = "ReceivingData" /\ raw_msg = L_QUIT
    /\ ret = Ok(SMTP_GOODBYE)
    /\ conn.state = Received(Mail(ADDR_A, <<ADDR_B>>, L_TERM))

\* The lines that reach the ReceivingData arm: they have a first token, and it
\* is neither QUIT nor a verb matched in any state
IsBodyLine(raw) == Verb(raw) \notin {<<>>, c_quit} \cup AnyStateCommands

EndsWithTerminator(raw) ==
    /\ Len(raw) >= 5
    /\ raw[Len(raw) - 4] = "\r" /\ raw[Len(raw) - 3] = "\n"
    /\ raw[Len(raw) - 2] = "."
    /\ raw[Len(raw) - 1] = "\r" /\ raw[Len(raw)] = "\n"

\* C12: for a body line handled in ReceivingData the reply is 250 Ok if and
\* only if the raw line ends with "\r\n.\r\n", and is empty otherwise; in both
\* cases the line is appended to mail.data and the state remains ReceivingData;
\* only QUIT takes ReceivingData to Received.
C12_TerminatorOnlyChangesReply ==
    [][/\ conn.state.tag = "ReceivingData" /\ IsBodyLine(raw_msg')
            => /\ ret'.ok
               /\ ret'.bytes = "250 Ok\n" <=> EndsWithTerminator(raw_msg')
               /\ ret'.bytes # "250 Ok\n" => ret'.bytes = ""
               /\ conn'.state =
                    ReceivingData([conn.state.mail EXCEPT !.data = @ \o raw_msg'])
       /\ conn.state.tag = "ReceivingData" /\ conn'.state.tag = "Received"
            => Verb(raw_msg') = c_quit]_vars

C12_Witness ==
    /\ called /\ preTag = "ReceivingData" /\ raw_msg = L_TERM
    /\ ret = Ok(SMTP_OK)
    /\ conn.state.tag = "ReceivingData"
    /\ conn.state.mail.data = L_DATA \o L_TERM

\* The second token of a line has the prefix p
SecondHasPrefix(raw, p) ==
    LET msg == split_whitespace(raw) IN
    /\ Len(msg) >= 2 /\ Len(msg[2]) >= Len(p)
    /\ \A i \in 1..Len(p) : msg[2][i] = p[i]

\* The second token of a line without its first n characters
SecondWithout(raw, n) ==
    LET tok == split_whitespace(raw)[2] IN
    [i \in 1..(Len(tok) - n) |-> tok[i + n]]

\* C13: MAIL handled in Acknowledged: when the second token exists and starts
\* with FROM:, the reply is 250 Ok and the next state is ReceivingRcpt with a
\* fresh envelope whose from is that token without the prefix, to and data
\* empty; otherwise the call fails with Malformed and no envelope is created.
C13_MailCreatesEnvelope ==
    [][conn.state = Acknowledged /\ Verb(raw_msg') = c_mail
         => /\ IF SecondHasPrefix(raw_msg', <<"F","R","O","M",":">>)
               THEN /\ ret' = Ok("250 Ok\n")
                    /\ conn'.state = ReceivingRcpt(
                           [from |-> SecondWithout(raw_msg', 5),
                            to |-> <<>>, data |-> <<>>])
               ELSE /\ ~ret'.ok
                    /\ ret'.msg \in {E_EMPTY_MAIL, E_INCORRECT_MAIL}
                    /\ ~HasMail(conn'.state)
            /\ raw_msg' = L_MAIL => conn'.state.mail.from = ADDR_A
            /\ raw_msg' \in {L_MAIL_EMPTY, L_MAIL_BAD} => ~ret'.ok]_vars

C13_Witness ==
    /\ called /\ preTag = "Acknowledged" /\ raw_msg = L_MAIL
    /\ ret = Ok(SMTP_OK)
    /\ conn.state = ReceivingRcpt(Mail(ADDR_A, <<>>, <<>>))

\* C14: RCPT handled in ReceivingRcpt(mail) with a second token that starts
\* with TO: replies 250 Ok, appends the token without the prefix at the end of
\* mail.to, leaves from and data unchanged and keeps the state ReceivingRcpt;
\* with the token missing or without the prefix it fails with Malformed and
\* appends nothing.
C14_RcptAppends ==
    [][conn.state.tag = "ReceivingRcpt" /\ Verb(raw_msg') = c_rcpt
         => /\ IF SecondHasPrefix(raw_msg', <<"T","O",":">>)
               THEN /\ ret' = Ok("250 Ok\n")
                    /\ conn'.state.tag = "ReceivingRcpt"
                    /\ conn'.state.mail.to =
                         conn.state.mail.to \o <<SecondWithout(raw_msg', 3)>>
                    /\ conn'.state.mail.from = conn.state.mail.from
                    /\ conn'.state.mail.data = conn.state.mail.data
               ELSE /\ ~ret'.ok
                    /\ ret'.msg \in {E_EMPTY_RCPT, E_INCORRECT_RCPT}
                    /\ ~HasMail(conn'.state)
            /\ raw_msg' = L_RCPT
                 => conn'.state.mail.to = Append(conn.state.mail.to, ADDR_B)
            /\ raw_msg' \in {L_RCPT_EMPTY, L_RCPT_BAD} => ~ret'.ok]_vars

C14_Witness ==
    /\ called /\ preTag = "ReceivingRcpt" /\ raw_msg = L_RCPT_SP_A
    /\ ret = Ok(SMTP_OK)
    /\ conn.state = ReceivingRcpt(Mail(ADDR_A, <<ADDR_B, <<>>>>, <<>>))

\* C15: DATA handled in ReceivingRcpt(mail) always succeeds, also with mail.to
\* empty: the reply is "354 End data with <CR><LF>.<CR><LF>\n" and the next
\* state is ReceivingData with the same from and to and an empty body; from
\* then on to is never modified for that envelope.
C15_DataOpensBody ==
    [][/\ conn.state.tag = "ReceivingRcpt" /\ Verb(raw_msg') = c_data
            => /\ ret' = Ok("354 End data with <CR><LF>.<CR><LF>\n")
               /\ conn'.state = ReceivingData(
                      Mail(conn.state.mail.from, conn.state.mail.to, <<>>))
       /\ conn.state.tag \in {"ReceivingData", "Received"} /\ HasMail(conn'.state)
            => /\ conn'.state.tag \in {"ReceivingData", "Received"}
               /\ conn'.state.mail.to = conn.state.mail.to
               /\ conn'.state.mail.from = conn.state.mail.from]_vars

C15_Witness ==
    /\ called /\ preTag = "ReceivingRcpt" /\ raw_msg = L_DATA
    /\ ret = Ok(SMTP_SEND_ME_DATA)
    /\ conn.state = ReceivingData(Mail(ADDR_A, <<>>, <<>>))

\* C16: QUIT handled in Ready, Acknowledged, ReceivingRcpt or Received replies
\* 221 Bye, never gives Received, and leaves the session in Ready, so that an
\* envelope held by ReceivingRcpt is dropped.
C16_EarlyQuitLeavesReady ==
    [][Verb(raw_msg') = c_quit /\ conn.state.tag # "ReceivingData"
         => ret' = Ok("221 Bye\n") /\ conn'.state = Ready]_vars

C16_Witness ==
    /\ called /\ preTag = "ReceivingRcpt" /\ raw_msg = L_QUIT
    /\ ret = Ok(SMTP_GOODBYE) /\ conn.state = Ready

\* The verb and state pairs that no arm of the match covers
Uncovered(verb, st) ==
    \/ verb \in {c_ehlo, c_helo} /\ st.tag \in {"Acknowledged", "ReceivingRcpt", "Received"}
    \/ verb = c_mail /\ st.tag \in {"Ready", "ReceivingRcpt", "Received"}
    \/ verb \in {c_rcpt, c_data} /\ st.tag \in {"Ready", "Acknowledged", "Received"}
    \/ verb \notin KnownCommands \cup {<<>>} /\ st.tag # "ReceivingData"

IsUnexpected(r) == ~r.ok /\ r.msg = "Unexpected message received in state"

\* C17: every verb and state pair not covered by a transition rule fails with
\* UnexpectedCommand, and the state reported in that error is the state the
\* session was in when the line arrived, together with the raw line.
C17_UnexpectedReportsState ==
    [][Uncovered(Verb(raw_msg'), conn.state)
         => /\ IsUnexpected(ret')
            /\ ret'.state = conn.state
            /\ ret'.raw_msg = raw_msg']_vars

\* C18 as stated: once the session is in Received(mail), no later line other
\* than RSET moves the session out of Received or changes the envelope.
C18_ReceivedIsKept ==
    [][conn.state.tag = "Received" /\ Verb(raw_msg') # c_rset
         => conn'.state = conn.state]_vars

\* C18 as amended: once the session is in Received(mail), only a line without
\* token, which is refused with the empty-command error, leaves Received(mail)
\* as it is; every line that has a first token, RSET or not, ends in Ready with
\* the envelope dropped, and no line changes the envelope while the session
\* stays in Received.
C18_ReceivedIsLeftByEveryCommand ==
    [][conn.state.tag = "Received"
         => IF Verb(raw_msg') = <<>>
            THEN ret' = Err(E_EMPTY_COMMAND) /\ conn'.state = conn.state
            ELSE conn'.state = Ready]_vars

C18_Witness ==
    /\ called /\ preTag = "Received" /\ raw_msg = L_MAIL
    /\ IsUnexpected(ret) /\ conn.state = Ready

\* C19: AUTH handled in any state replies 235 Ok whatever its arguments and
\* leaves the session in Ready: the state before the call is not restored, an
\* envelope is discarded, and a MAIL that follows fails for want of a greeting.
C19_AuthLeavesReady ==
    [][/\ Verb(raw_msg') = c_auth
            => ret' = Ok("235 Ok\n") /\ conn'.state = Ready
       /\ called /\ Verb(raw_msg) = c_auth /\ Verb(raw_msg') = c_mail
            => ~ret'.ok /\ conn'.state = Ready]_vars

C19_Witness ==
    /\ called /\ preTag = "Received" /\ raw_msg = L_AUTH_BARE
    /\ ret = Ok(SMTP_AUTH_OK) /\ conn.state = Ready

\* C20: a line without token is refused before the state is taken: in every
\* state the call returns the empty-command error and leaves the state and its
\* envelope as they were.
C20_EmptyLineTouchesNothing ==
    [][Verb(raw_msg') = <<>>
         => ret' = Err("received empty command") /\ conn'.state = conn.state]_vars

C20_Witness ==
    /\ called /\ preTag = "ReceivingRcpt" /\ raw_msg = L_WS
    /\ ret = Err(E_EMPTY_COMMAND)
    /\ conn.state = ReceivingRcpt(Mail(ADDR_A, <<ADDR_B>>, <<>>))

====
